---- MODULE Spec2Model ----
(***************************************************************************)
(* The G19 device session of src/g19.py: the cached color and brightness,  *)
(* the lock around every USB transfer, the polling thread G19._run with    *)
(* its two key mappings, and start()/stop(), called by caller threads.     *)
(*                                                                         *)
(* One step of the model is one step of one thread.  A transfer is in      *)
(* flight from the step that takes the lock to the step that leaves the    *)
(* `with self._lock` block.  The subscribers of key_down and key_up are    *)
(* the two methods Service._key_down and Service._key_up, which emit a     *)
(* signal and return; a notification is recorded in the history variable   *)
(* ev and in last.                                                         *)
(***************************************************************************)
EXTENDS Integers, Sequences, FiniteSets, TLC

VARIABLES
    color,          \* G19._color
    brightness,     \* G19._brightness
    thread,         \* G19._thread: 0 is None, else the id of a polling thread
    running,        \* G19._running
    stopped,        \* G19._stopped (threading.Event): TRUE once set
    lock,           \* G19._lock: TRUE while some thread holds it
    display_keys,   \* G19._display_keys: ControlKey -> pressed
    game_keys,      \* G19._game_keys: GameKey -> pressed
    cpc,            \* caller thread -> where it is in the call it makes
    cdata,          \* caller thread -> local `data` of the command it runs
    cjoin,          \* caller thread in stop(): the thread object it joins
    tpc,            \* polling thread -> where it is in _run
    tkeys,          \* polling thread -> local `keys` (the raw bitmask)
    tidx,           \* polling thread -> position of the `for key in ...` loop
    ev,             \* history: what the last step did that can be observed
    last,           \* history: <<mapping, key>> -> "down" if the last notification
                    \*          fired for the key is key-down, "up" if key-up or none
    stopReturned,   \* history: some stop() call has returned
    cafter,         \* history: caller's current call began after a stop() returned
    lastColorArg,   \* history: argument of the most recent set_color call
    ncalls          \* history: how many calls have been made

vars == <<color, brightness, thread, running, stopped, lock, display_keys,
          game_keys, cpc, cdata, cjoin, tpc, tkeys, tidx, ev, last,
          stopReturned, cafter, lastColorArg, ncalls>>

\* what no step of a polling thread changes
callerSide == <<color, brightness, thread, stopped, cpc, cdata, cjoin, cafter,
                stopReturned, lastColorArg, ncalls>>

\* what no step of a caller thread changes
pollerSide == <<display_keys, game_keys, tkeys, tidx, last>>

----------------------------------------------------------------------------
(* Bounds of the model *)

\* how many polling threads start() may create in one behaviour
MaxThreads == 2

\* the caller threads (the threads that call the public methods of G19)
Callers == {"c1", "c2"}

\* how many calls that change the session the callers make in one behaviour
MaxCalls == 3

Threads == 1..MaxThreads

----------------------------------------------------------------------------
(* Constants of the program *)

ControlKey == <<1, 2, 4, 8, 16, 32, 64, 128>>

GameKey == <<1, 2, 4, 8, 16, 32, 64, 128, 256, 512, 1024, 2048,
             4096, 8192, 16384, 32768, 524288>>

Range(s) == {s[i] : i \in 1..Len(s)}

SENTINEL == 2
MACRO_LEN == 4
BRIGHTNESS_MIN == 0
BRIGHTNESS_MAX == 100
FRAME_BYTES == 230400

\* a & b on naturals
RECURSIVE BitAnd(_, _)
BitAnd(a, b) ==
    IF a = 0 \/ b = 0 THEN 0
    ELSE (a % 2) * (b % 2) + 2 * BitAnd(a \div 2, b \div 2)

\* what a step did that can be observed from outside: a call returned or
\* raised val ("ret"), a read of the polling loop failed with val ("read"),
\* the notification op was fired for the key val ("notify")
NoEvent == [type |-> "none", op |-> "", val |-> ""]
Observed(type, op, val) == [type |-> type, op |-> op, val |-> val]

----------------------------------------------------------------------------
(* Inputs: the arguments callers pass and the outcomes of the transfers *)

Colors == {<<255, 128, 0>>, <<1, 2, 3>>}
BrightnessArgs == {0 - 1, 0, 100, 101}
LightArgs == {128}
FrameLens == {FRAME_BYTES - 1, FRAME_BYTES, FRAME_BYTES + 1}

\* a transfer that fails raises usb.USBError (a timeout is one)
Failures == {"timeout", "ioerror"}

\* what a read of the macro-key endpoint 0x83 may return
GameData == {<<>>, <<2, 1>>, <<1, 1, 0, 0>>, <<2, 0, 0, 0>>, <<2, 1, 0, 0>>}

\* what a read of the control-pad endpoint 0x81 may return
PadData == {<<>>, <<0, 0>>, <<8, 0>>}

----------------------------------------------------------------------------
(* State after G19.__init__ *)

\* no command in progress
NoCall == [op |-> "", data |-> <<>>]

KeyIds == ({"game"} \X Range(GameKey)) \cup ({"display"} \X Range(ControlKey))

Init ==
    /\ color = <<0, 0, 0>>
    /\ brightness = 100
    /\ thread = 0
    /\ running = FALSE
    /\ stopped = FALSE
    /\ lock = FALSE
    /\ display_keys = [k \in Range(ControlKey) |-> FALSE]
    /\ game_keys = [k \in Range(GameKey) |-> FALSE]
    /\ cpc = [c \in Callers |-> "idle"]
    /\ cdata = [c \in Callers |-> NoCall]
    /\ cjoin = [c \in Callers |-> 0]
    /\ tpc = [t \in Threads |-> "unborn"]
    /\ tkeys = [t \in Threads |-> 0]
    /\ tidx = [t \in Threads |-> 0]
    /\ ev = NoEvent
    /\ last = [k \in KeyIds |-> "up"]
    /\ stopReturned = FALSE
    /\ cafter = [c \in Callers |-> FALSE]
    /\ lastColorArg = <<0, 0, 0>>
    /\ ncalls = 0

----------------------------------------------------------------------------
(* Commands: Service.set_color, set_brightness, light, show and the G19    *)
(* methods they call.  A command is called (its arguments are checked and  *)
(* cached, its payload built), enters `with self._lock` and starts its     *)
(* transfer, and leaves the block when the transfer ends.                  *)

FRAME_HEADER == <<16, 15, 0, 88, 2, 0, 0, 0, 0, 0, 0, 63, 1, 239, 0, 15>>

\* a preamble of the header and one run of the bytes 0..255
FRAME_PREAMBLE_short == FRAME_HEADER \o [i \in 1..256 |-> i - 1]

FRAME_PREAMBLE ==
    FRAME_HEADER \o [i \in 1..240 |-> i + 15] \o [i \in 1..256 |-> i - 1]

WIDTH == 320
HEIGHT == 240

\* a caller that is in no call makes one more call
Call(c) ==
    /\ cpc[c] = "idle"
    /\ ncalls < MaxCalls
    /\ ncalls' = ncalls + 1

\* the call of c returns val, or raises it
Return(c, op, val) ==
    /\ cpc' = [cpc EXCEPT ![c] = "idle"]
    /\ cdata' = [cdata EXCEPT ![c] = NoCall]
    /\ cafter' = [cafter EXCEPT ![c] = FALSE]
    /\ ev' = Observed("ret", op, val)

\* the call of c goes on to the place `to` with the local `data`
Goto(c, to, op, data) ==
    /\ cpc' = [cpc EXCEPT ![c] = to]
    /\ cdata' = [cdata EXCEPT ![c] = [op |-> op, data |-> data]]
    /\ cafter' = [cafter EXCEPT ![c] = stopReturned]
    /\ ev' = NoEvent

\* set_color that refuses a stopped session
set_color_checked(c, col) ==
    /\ Call(c)
    /\ IF stopped
       THEN /\ Return(c, "set_color", "InvalidState")
            /\ UNCHANGED <<color, lastColorArg>>
       ELSE /\ color' = col
            /\ lastColorArg' = col
            /\ Goto(c, "lock", "set_color", <<7>> \o col)
    /\ UNCHANGED <<brightness, thread, running, stopped, lock, cjoin, tpc,
                   stopReturned, pollerSide>>

\* set_color that leaves the cache to a later step
set_color_uncached(c, col) ==
    /\ Call(c)
    /\ lastColorArg' = col
    /\ Goto(c, "lock", "set_color", <<7>> \o col)
    /\ UNCHANGED <<color, brightness, thread, running, stopped, lock, cjoin,
                   tpc, stopReturned, pollerSide>>

set_color(c, col) ==
    /\ Call(c)
    /\ color' = col
    /\ lastColorArg' = col
    /\ Goto(c, "lock", "set_color", <<7>> \o col)
    /\ UNCHANGED <<brightness, thread, running, stopped, lock, cjoin, tpc,
                   stopReturned, pollerSide>>

\* the getters return the cached values
get_color == color

\* set_brightness that caches before it checks, as the color setter does
set_brightness_cache_first(c, b) ==
    /\ Call(c)
    /\ brightness' = b
    /\ IF BRIGHTNESS_MIN <= b /\ b <= BRIGHTNESS_MAX
       THEN Goto(c, "lock", "set_brightness",
                 <<b, 226, 18, 0, 140, 17, 0, 16, 0>>)
       ELSE Return(c, "set_brightness", "AssertionError")
    /\ UNCHANGED <<color, thread, running, stopped, lock, cjoin, tpc,
                   stopReturned, lastColorArg, pollerSide>>

set_brightness(c, b) ==
    /\ Call(c)
    /\ IF BRIGHTNESS_MIN <= b /\ b <= BRIGHTNESS_MAX
       THEN /\ brightness' = b
            /\ Goto(c, "lock", "set_brightness",
                    <<b, 226, 18, 0, 140, 17, 0, 16, 0>>)
       ELSE /\ Return(c, "set_brightness", "AssertionError")
            /\ UNCHANGED brightness
    /\ UNCHANGED <<color, thread, running, stopped, lock, cjoin, tpc,
                   stopReturned, lastColorArg, pollerSide>>

get_brightness == brightness

light(c, keys) ==
    /\ Call(c)
    /\ Goto(c, "lock", "light", <<5, keys>>)
    /\ UNCHANGED <<color, brightness, thread, running, stopped, lock, cjoin,
                   tpc, stopReturned, lastColorArg, pollerSide>>

\* the frame show() writes: its first 16 bytes and its length
Frame == [head |-> SubSeq(FRAME_PREAMBLE, 1, 16),
          len |-> Len(FRAME_PREAMBLE) + 2 * WIDTH * HEIGHT]

\* show that encodes and writes whatever it is given
show_unchecked(c, n) ==
    /\ Call(c)
    /\ Goto(c, "lock", "show", Frame)
    /\ UNCHANGED <<color, brightness, thread, running, stopped, lock, cjoin,
                   tpc, stopReturned, lastColorArg, pollerSide>>

show(c, n) ==
    /\ Call(c)
    /\ IF n = 3 * WIDTH * HEIGHT
       THEN Goto(c, "lock", "show", Frame)
       ELSE Return(c, "show", "AssertionError")
    /\ UNCHANGED <<color, brightness, thread, running, stopped, lock, cjoin,
                   tpc, stopReturned, lastColorArg, pollerSide>>

\* a command that starts its transfer without taking the lock
command_lock_unguarded(c) ==
    /\ cpc[c] = "lock"
    /\ lock' = TRUE
    /\ cpc' = [cpc EXCEPT ![c] = "xfer"]
    /\ ev' = NoEvent
    /\ UNCHANGED <<color, brightness, thread, running, stopped, cdata, cjoin,
                   cafter, tpc, stopReturned, lastColorArg, ncalls, pollerSide>>

\* `with self._lock:` is entered and the transfer of the command starts
command_lock(c) ==
    /\ cpc[c] = "lock"
    /\ ~lock
    /\ lock' = TRUE
    /\ cpc' = [cpc EXCEPT ![c] = "xfer"]
    /\ ev' = NoEvent
    /\ UNCHANGED <<color, brightness, thread, running, stopped, cdata, cjoin,
                   cafter, tpc, stopReturned, lastColorArg, ncalls, pollerSide>>

\* a command that leaves the lock held when its transfer fails
command_done_leak(c, outcome) ==
    /\ cpc[c] = "xfer"
    /\ lock' = (outcome # "ok")
    /\ Return(c, cdata[c].op, IF outcome = "ok" THEN "ok" ELSE "USBError")
    /\ UNCHANGED <<color, brightness, thread, running, stopped, cjoin, tpc,
                   stopReturned, lastColorArg, ncalls, pollerSide>>

\* a command that swallows the error of its transfer
command_done_swallow(c, outcome) ==
    /\ cpc[c] = "xfer"
    /\ lock' = FALSE
    /\ Return(c, cdata[c].op, "ok")
    /\ UNCHANGED <<color, brightness, thread, running, stopped, cjoin, tpc,
                   stopReturned, lastColorArg, ncalls, pollerSide>>

\* the transfer ends: the block is left, an error goes to the caller
command_done(c, outcome) ==
    /\ cpc[c] = "xfer"
    /\ lock' = FALSE
    /\ Return(c, cdata[c].op, IF outcome = "ok" THEN "ok" ELSE "USBError")
    /\ UNCHANGED <<color, brightness, thread, running, stopped, cjoin, tpc,
                   stopReturned, lastColorArg, ncalls, pollerSide>>

----------------------------------------------------------------------------
(* G19.start and G19.stop *)

Unborn == {t \in Threads : tpc[t] = "unborn"}
Starting == {c \in Callers : cpc[c] = "start_set"}

\* `if self._running: return`; a thread is left for the caller to create
start_check(c) ==
    /\ Call(c)
    /\ Cardinality(Starting) < Cardinality(Unborn)
    /\ IF running
       THEN Return(c, "start", "ok")
       ELSE Goto(c, "start_set", "start", <<>>)
    /\ UNCHANGED <<color, brightness, thread, running, stopped, lock, cjoin,
                   tpc, stopReturned, lastColorArg, pollerSide>>

\* `self._running = True`, then the thread is created and started
start_set(c) ==
    /\ cpc[c] = "start_set"
    /\ LET t == CHOOSE u \in Unborn : \A v \in Unborn : u <= v
       IN /\ running' = TRUE
          /\ thread' = t
          /\ tpc' = [tpc EXCEPT ![t] = "wait"]
    /\ Return(c, "start", "ok")
    /\ UNCHANGED <<color, brightness, stopped, lock, cjoin, stopReturned,
                   lastColorArg, ncalls, pollerSide>>

\* `self._stopped.set()`
stop_set(c) ==
    /\ Call(c)
    /\ stopped' = TRUE
    /\ Goto(c, "stop_load", "stop", <<>>)
    /\ UNCHANGED <<color, brightness, thread, running, lock, cjoin, tpc,
                   stopReturned, lastColorArg, pollerSide>>

\* `self._thread.join`: the attribute is looked up; None has no join
stop_load(c) ==
    /\ cpc[c] = "stop_load"
    /\ IF thread = 0
       THEN /\ Return(c, "stop", "AttributeError")
            /\ UNCHANGED cjoin
       ELSE /\ cpc' = [cpc EXCEPT ![c] = "stop_join"]
            /\ cjoin' = [cjoin EXCEPT ![c] = thread]
            /\ ev' = NoEvent
            /\ UNCHANGED <<cdata, cafter>>
    /\ UNCHANGED <<color, brightness, thread, running, stopped, lock, tpc,
                   stopReturned, lastColorArg, ncalls, pollerSide>>

Finished(t) == tpc[t] \in {"done", "dead"}

\* stop() that forgets the thread it has joined
stop_join_forget(c) ==
    /\ cpc[c] = "stop_join"
    /\ Finished(cjoin[c])
    /\ cjoin' = [cjoin EXCEPT ![c] = 0]
    /\ thread' = 0
    /\ stopReturned' = TRUE
    /\ Return(c, "stop", "ok")
    /\ UNCHANGED <<color, brightness, running, stopped, lock, tpc,
                   lastColorArg, ncalls, pollerSide>>

\* join() returns once the joined thread has finished
stop_join(c) ==
    /\ cpc[c] = "stop_join"
    /\ Finished(cjoin[c])
    /\ cjoin' = [cjoin EXCEPT ![c] = 0]
    /\ stopReturned' = TRUE
    /\ Return(c, "stop", "ok")
    /\ UNCHANGED <<color, brightness, thread, running, stopped, lock, tpc,
                   lastColorArg, ncalls, pollerSide>>

----------------------------------------------------------------------------
(* G19._run, the polling loop of a polling thread t *)

\* a wait that does not look at the stop signal
run_wait_deaf(t) ==
    /\ tpc[t] = "wait"
    /\ tpc' = [tpc EXCEPT ![t] = "g_lock"]
    /\ ev' = NoEvent
    /\ UNCHANGED <<callerSide, pollerSide, running, lock>>

\* `while not self._stopped.wait(0.05)`
run_wait(t) ==
    /\ tpc[t] = "wait"
    /\ tpc' = [tpc EXCEPT ![t] = IF stopped THEN "exit" ELSE "g_lock"]
    /\ ev' = NoEvent
    /\ UNCHANGED <<callerSide, pollerSide, running, lock>>

\* `with self._lock:` of a read is entered and the read starts
run_lock(t, at, to) ==
    /\ tpc[t] = at
    /\ ~lock
    /\ lock' = TRUE
    /\ tpc' = [tpc EXCEPT ![t] = to]
    /\ ev' = NoEvent
    /\ UNCHANGED <<callerSide, pollerSide, running>>

run_macro_lock(t) == run_lock(t, "g_lock", "g_xfer")

\* `keys = data[3] << 16 | data[2] << 8 | data[1]` (the bytes are below 256)
MacroKeys(data) == data[4] * 65536 + data[3] * 256 + data[2]

\* the loop over the keys of a mapping begins with the bitmask keys
run_loop_begin(t, to, keys) ==
    /\ tpc' = [tpc EXCEPT ![t] = to]
    /\ tkeys' = [tkeys EXCEPT ![t] = keys]
    /\ tidx' = [tidx EXCEPT ![t] = 1]

\* the read raised usb.USBError and nothing catches it: the thread dies
read_failed_uncaught(t, to) ==
    /\ tpc' = [tpc EXCEPT ![t] = "dead"]
    /\ UNCHANGED <<tkeys, tidx>>

\* `except usb.USBError: pass`: the thread goes on at `to`
read_failed(t, to) ==
    /\ tpc' = [tpc EXCEPT ![t] = to]
    /\ UNCHANGED <<tkeys, tidx>>

\* a macro-key read that keeps the lock for the control-pad read
run_macro_read_locked(t, r) ==
    /\ tpc[t] = "g_xfer"
    /\ ev' = (IF r \in Failures THEN Observed("read", "macro", "USBError") ELSE NoEvent)
    /\ IF r \in Failures
       THEN read_failed(t, "d_xfer")
       ELSE IF Len(r) = 0
       THEN /\ tpc' = [tpc EXCEPT ![t] = "dead"]
            /\ UNCHANGED <<tkeys, tidx>>
       ELSE IF r[1] = SENTINEL /\ Len(r) = MACRO_LEN
       THEN run_loop_begin(t, "g_test", MacroKeys(r))
       ELSE /\ tpc' = [tpc EXCEPT ![t] = "d_xfer"]
            /\ UNCHANGED <<tkeys, tidx>>
    /\ UNCHANGED <<callerSide, running, lock, display_keys, game_keys, last>>

\* the macro-key read ends with result r: a failure or the data read
run_macro_read(t, r) ==
    /\ tpc[t] = "g_xfer"
    /\ lock' = FALSE
    /\ ev' = (IF r \in Failures THEN Observed("read", "macro", "USBError") ELSE NoEvent)
    /\ IF r \in Failures
       THEN read_failed(t, "d_lock")
       ELSE IF Len(r) = 0
       THEN \* data[0] raises IndexError, which nothing catches
            /\ tpc' = [tpc EXCEPT ![t] = "dead"]
            /\ UNCHANGED <<tkeys, tidx>>
       ELSE IF r[1] = SENTINEL /\ Len(r) = MACRO_LEN
       THEN run_loop_begin(t, "g_test", MacroKeys(r))
       ELSE /\ tpc' = [tpc EXCEPT ![t] = "d_lock"]
            /\ UNCHANGED <<tkeys, tidx>>
    /\ UNCHANGED <<callerSide, running, display_keys, game_keys, last>>

\* a visit that tells a pressed key again on every pass
Fires_level(keys, key, state) ==
    IF BitAnd(keys, key) # 0
    THEN "key_down"
    ELSE IF state THEN "key_up" ELSE "none"

\* the notification one visit of the loop fires for a key: `keys & key`
\* against the stored state
Fires(keys, key, state) ==
    IF BitAnd(keys, key) # 0
    THEN IF ~state THEN "key_down" ELSE "none"
    ELSE IF state THEN "key_up" ELSE "none"

\* a pass that takes the keys from the end of the enumeration
Visit_last(Keys, keys, state, i) ==
    LET D == {j \in i..Len(Keys) : Fires(keys, Keys[j], state[Keys[j]]) # "none"}
    IN IF D = {} THEN Len(Keys) + 1
       ELSE CHOOSE d \in D : \A e \in D : e <= d

\* A visit of the loop that finds the bit of its key equal to the stored
\* state fires nothing and stores the state again.  Such visits are taken
\* in one step with the visit that follows them: Visit is the position, from
\* i on, of the first key of Keys whose visit fires, or Len(Keys) + 1 when
\* the loop ends without one.
RECURSIVE Visit(_, _, _, _)
Visit(Keys, keys, state, i) ==
    IF i > Len(Keys) THEN i
    ELSE IF Fires(keys, Keys[i], state[Keys[i]]) # "none" THEN i
    ELSE Visit(Keys, keys, state, i + 1)

\* Event.fire: the handlers are called with the key
fire(t, what, id) ==
    /\ ev' = Observed("notify", what, id)
    /\ last' = [last EXCEPT ![id] = IF what = "key_down" THEN "down" ELSE "up"]

\* the loop is left
run_loop_end(t, to) ==
    /\ tpc' = [tpc EXCEPT ![t] = to]
    /\ tidx' = [tidx EXCEPT ![t] = 0]
    /\ tkeys' = [tkeys EXCEPT ![t] = 0]
    /\ ev' = NoEvent
    /\ UNCHANGED last

\* `for key in GameKey:` up to the next notification, which is fired; the
\* thread is at `to` when the handlers have been called
run_macro_visit(t, to) ==
    /\ tpc[t] = "g_test"
    /\ LET i == Visit(GameKey, tkeys[t], game_keys, tidx[t])
       IN IF i > Len(GameKey)
          THEN run_loop_end(t, "d_lock")
          ELSE /\ fire(t, Fires(tkeys[t], GameKey[i], game_keys[GameKey[i]]),
                       <<"game", GameKey[i]>>)
               /\ tpc' = [tpc EXCEPT ![t] = to]
               /\ tidx' = [tidx EXCEPT ![t] = i]
               /\ UNCHANGED tkeys
    /\ UNCHANGED <<callerSide, running, lock, display_keys, game_keys>>

\* the handlers return at once
run_macro_test(t) == run_macro_visit(t, "g_set")

\* `self._game_keys[key] = True` or `= False`
run_macro_set(t) ==
    /\ tpc[t] = "g_set"
    /\ LET key == GameKey[tidx[t]]
       IN game_keys' = [game_keys EXCEPT ![key] = BitAnd(tkeys[t], key) # 0]
    /\ tidx' = [tidx EXCEPT ![t] = tidx[t] + 1]
    /\ tpc' = [tpc EXCEPT ![t] = "g_test"]
    /\ ev' = NoEvent
    /\ UNCHANGED <<callerSide, running, lock, display_keys, tkeys, last>>

run_pad_lock(t) == run_lock(t, "d_lock", "d_xfer")

\* a control-pad read whose lock is kept over the pass that follows it
run_pad_read_locked(t, r) ==
    /\ tpc[t] = "d_xfer"
    /\ lock' = (r \notin Failures /\ Len(r) # 0)
    /\ ev' = (IF r \in Failures THEN Observed("read", "pad", "USBError") ELSE NoEvent)
    /\ IF r \in Failures
       THEN read_failed(t, "wait")
       ELSE IF Len(r) = 0
       THEN /\ tpc' = [tpc EXCEPT ![t] = "dead"]
            /\ UNCHANGED <<tkeys, tidx>>
       ELSE run_loop_begin(t, "d_test", r[1])
    /\ UNCHANGED <<callerSide, running, display_keys, game_keys, last>>

\* the control-pad read ends with result r; `[0]` is taken of the data
run_pad_read(t, r) ==
    /\ tpc[t] = "d_xfer"
    /\ lock' = FALSE
    /\ ev' = (IF r \in Failures THEN Observed("read", "pad", "USBError") ELSE NoEvent)
    /\ IF r \in Failures
       THEN read_failed(t, "wait")
       ELSE IF Len(r) = 0
       THEN \* [0] raises IndexError, which nothing catches
            /\ tpc' = [tpc EXCEPT ![t] = "dead"]
            /\ UNCHANGED <<tkeys, tidx>>
       ELSE run_loop_begin(t, "d_test", r[1])
    /\ UNCHANGED <<callerSide, running, display_keys, game_keys, last>>

\* `for key in ControlKey:` up to the next notification, which is fired; the
\* thread is at `to` when the handlers have been called
run_pad_visit(t, to) ==
    /\ tpc[t] = "d_test"
    /\ LET i == Visit(ControlKey, tkeys[t], display_keys, tidx[t])
       IN IF i > Len(ControlKey)
          THEN run_loop_end(t, "wait")
          ELSE /\ fire(t, Fires(tkeys[t], ControlKey[i],
                                display_keys[ControlKey[i]]),
                       <<"display", ControlKey[i]>>)
               /\ tpc' = [tpc EXCEPT ![t] = to]
               /\ tidx' = [tidx EXCEPT ![t] = i]
               /\ UNCHANGED tkeys
    /\ UNCHANGED <<callerSide, running, lock, display_keys, game_keys>>

\* the handlers return at once
run_pad_test(t) == run_pad_visit(t, "d_set")

\* `self._display_keys[key] = True` or `= False`
run_pad_set(t) ==
    /\ tpc[t] = "d_set"
    /\ LET key == ControlKey[tidx[t]]
       IN display_keys' =
              [display_keys EXCEPT ![key] = BitAnd(tkeys[t], key) # 0]
    /\ tidx' = [tidx EXCEPT ![t] = tidx[t] + 1]
    /\ tpc' = [tpc EXCEPT ![t] = "d_test"]
    /\ ev' = NoEvent
    /\ UNCHANGED <<callerSide, running, lock, game_keys, tkeys, last>>

\* `self._running = False`, and the thread ends
run_exit(t) ==
    /\ tpc[t] = "exit"
    /\ running' = FALSE
    /\ tpc' = [tpc EXCEPT ![t] = "done"]
    /\ ev' = NoEvent
    /\ UNCHANGED <<callerSide, pollerSide, lock>>

----------------------------------------------------------------------------

CallerNext(c) ==
    \/ \E col \in Colors : set_color(c, col)
    \/ \E b \in BrightnessArgs : set_brightness(c, b)
    \/ \E k \in LightArgs : light(c, k)
    \/ \E n \in FrameLens : show(c, n)
    \/ command_lock(c)
    \/ \E o \in {"ok"} \cup Failures : command_done(c, o)
    \/ start_check(c)
    \/ start_set(c)
    \/ stop_set(c)
    \/ stop_load(c)
    \/ stop_join(c)

PollerNext(t, Game, Pad) ==
    \/ run_wait(t)
    \/ run_macro_lock(t)
    \/ \E r \in Failures \cup Game : run_macro_read(t, r)
    \/ run_macro_test(t)
    \/ run_macro_set(t)
    \/ run_pad_lock(t)
    \/ \E r \in Failures \cup Pad : run_pad_read(t, r)
    \/ run_pad_test(t)
    \/ run_pad_set(t)
    \/ run_exit(t)

Next ==
    \/ \E c \in Callers : CallerNext(c)
    \/ \E t \in Threads : PollerNext(t, GameData, PadData)

Spec == Init /\ [][Next]_vars

----------------------------------------------------------------------------
(* The polling loop by itself: the session of one start(), never stopped,
   polled by its one thread, with reads that press and release several keys
   of a mapping at once. *)

Poller == 1

\* macro-key reads: G1 (0x1), G2 (0x2), MR (0x8000) and LIGHT (0x80000) in
\* the three bytes after the sentinel, and a packet with another first byte
GameDataKeys ==
    {<<2, 0, 0, 0>>, <<2, 1, 0, 0>>, <<2, 3, 0, 0>>, <<2, 0, 128, 8>>,
     <<2, 2, 0, 8>>, <<3, 1, 0, 0>>}

\* control-pad reads: OK (0x08), OK with UP (0x88), SETTINGS with UP (0x81)
PadDataKeys == {<<0, 0>>, <<8, 0>>, <<136, 0>>, <<129, 0>>}

InitKeys ==
    /\ color = <<0, 0, 0>>
    /\ brightness = 100
    /\ thread = Poller
    /\ running = TRUE
    /\ stopped = FALSE
    /\ lock = FALSE
    /\ display_keys = [k \in Range(ControlKey) |-> FALSE]
    /\ game_keys = [k \in Range(GameKey) |-> FALSE]
    /\ cpc = [c \in Callers |-> "idle"]
    /\ cdata = [c \in Callers |-> NoCall]
    /\ cjoin = [c \in Callers |-> 0]
    /\ cafter = [c \in Callers |-> FALSE]
    /\ tpc = [t \in Threads |-> IF t = Poller THEN "wait" ELSE "unborn"]
    /\ tkeys = [t \in Threads |-> 0]
    /\ tidx = [t \in Threads |-> 0]
    /\ ev = NoEvent
    /\ last = [k \in KeyIds |-> "up"]
    /\ stopReturned = FALSE
    /\ lastColorArg = <<0, 0, 0>>
    /\ ncalls = 1

NextKeys ==
    \/ run_wait(Poller)
    \/ run_macro_lock(Poller)
    \/ \E r \in Failures \cup GameDataKeys : run_macro_read(Poller, r)
    \/ run_macro_test(Poller)
    \/ run_macro_set(Poller)
    \/ run_pad_lock(Poller)
    \/ \E r \in Failures \cup PadDataKeys : run_pad_read(Poller, r)
    \/ run_pad_test(Poller)
    \/ run_pad_set(Poller)

SpecKeys == InitKeys /\ [][NextKeys]_vars

----------------------------------------------------------------------------
(* The session under fair scheduling, with callers that go on calling     *)
(* light() for ever beside their start() and stop() calls.  A thread that *)
(* can take a step takes it, a transfer ends, and a polling thread that   *)
(* waits for the lock gets it at some release.                            *)

\* the reads of this session: G1 and OK down
GameDataLive == {<<2, 1, 0, 0>>}
PadDataLive == {<<8, 0>>}

\* light() called once more: the calls of light() are not counted
light_more(c, keys) ==
    /\ cpc[c] = "idle"
    /\ Goto(c, "lock", "light", <<5, keys>>)
    /\ UNCHANGED <<color, brightness, thread, running, stopped, lock, cjoin,
                   tpc, stopReturned, lastColorArg, ncalls, pollerSide>>

CallerNextLive(c) ==
    \/ \E k \in LightArgs : light_more(c, k)
    \/ command_lock(c)
    \/ \E o \in {"ok"} \cup Failures : command_done(c, o)
    \/ start_check(c)
    \/ start_set(c)
    \/ stop_set(c)
    \/ stop_load(c)
    \/ stop_join(c)

NextLive ==
    \/ \E c \in Callers : CallerNextLive(c)
    \/ \E t \in Threads : PollerNext(t, GameDataLive, PadDataLive)

\* the steps of a polling thread that wait for nothing
PollerRuns(t) ==
    \/ run_wait(t)
    \/ \E r \in Failures \cup GameDataLive : run_macro_read(t, r)
    \/ run_macro_test(t)
    \/ run_macro_set(t)
    \/ \E r \in Failures \cup PadDataLive : run_pad_read(t, r)
    \/ run_pad_test(t)
    \/ run_pad_set(t)
    \/ run_exit(t)

\* the steps of a caller that end a transfer or go on in stop()
CallerRuns(c) ==
    \/ \E o \in {"ok"} \cup Failures : command_done(c, o)
    \/ stop_load(c)
    \/ stop_join(c)

FairLive ==
    /\ \A t \in Threads :
          /\ WF_vars(PollerRuns(t))
          /\ SF_vars(run_macro_lock(t) \/ run_pad_lock(t))
    /\ \A c \in Callers : WF_vars(CallerRuns(c))

SpecLive == Init /\ [][NextLive]_vars /\ FairLive

----------------------------------------------------------------------------
(* The started session with a subscriber that calls light() from inside   *)
(* its handler, on the polling thread, while the callers go on calling    *)
(* light() too.  A USBError of the handler's transfer is raised through   *)
(* Event.fire into the `except usb.USBError: pass` of the loop.           *)

\* the reads of this session: G1 and OK go down and up
GameDataHandler == {<<2, 1, 0, 0>>, <<2, 0, 0, 0>>}
PadDataHandler == {<<8, 0>>, <<0, 0>>}

\* `with self._lock:` of the light() the handler calls
handler_macro_lock(t) == run_lock(t, "g_call", "g_cxfer")
handler_pad_lock(t) == run_lock(t, "d_call", "d_cxfer")

\* the transfer of the handler's light() ends: the handler returns to the
\* loop at `to`, or its error is caught by the loop, which goes on at `exc`
handler_done(t, at, to, exc, outcome) ==
    /\ tpc[t] = at
    /\ lock' = FALSE
    /\ IF outcome = "ok"
       THEN /\ tpc' = [tpc EXCEPT ![t] = to]
            /\ UNCHANGED <<tkeys, tidx>>
       ELSE read_failed(t, exc)
    /\ ev' = NoEvent
    /\ UNCHANGED <<callerSide, running, display_keys, game_keys, last>>

handler_macro_done(t, outcome) ==
    handler_done(t, "g_cxfer", "g_set", "d_lock", outcome)

handler_pad_done(t, outcome) ==
    handler_done(t, "d_cxfer", "d_set", "wait", outcome)

NextHandler ==
    \/ \E c \in Callers :
          \/ \E k \in LightArgs : light_more(c, k)
          \/ command_lock(c)
          \/ \E o \in {"ok"} \cup Failures : command_done(c, o)
    \/ run_wait(Poller)
    \/ run_macro_lock(Poller)
    \/ \E r \in Failures \cup GameDataHandler : run_macro_read(Poller, r)
    \/ run_macro_visit(Poller, "g_call")
    \/ handler_macro_lock(Poller)
    \/ \E o \in {"ok"} \cup Failures : handler_macro_done(Poller, o)
    \/ run_macro_set(Poller)
    \/ run_pad_lock(Poller)
    \/ \E r \in Failures \cup PadDataHandler : run_pad_read(Poller, r)
    \/ run_pad_visit(Poller, "d_call")
    \/ handler_pad_lock(Poller)
    \/ \E o \in {"ok"} \cup Failures : handler_pad_done(Poller, o)
    \/ run_pad_set(Poller)

FairHandler ==
    /\ SF_vars(handler_macro_lock(Poller))
    /\ SF_vars(handler_pad_lock(Poller))
    /\ \A c \in Callers :
          WF_vars(\E o \in {"ok"} \cup Failures : command_done(c, o))

SpecHandler == InitKeys /\ [][NextHandler]_vars /\ FairHandler

----------------------------------------------------------------------------
(* The claims *)

Commands == {"set_color", "set_brightness", "light", "show"}

\* how many transfers are in flight: a thread is inside a `with self._lock`
InFlight ==
    Cardinality({c \in Callers : cpc[c] = "xfer"})
    + Cardinality({t \in Threads : tpc[t] \in {"g_xfer", "d_xfer"}})

\* C1: the notifications fired for a key alternate, beginning with key-down:
\* a key-down is fired only when the last notification of the key is not a
\* key-down, a key-up only when the last one is a key-down.
C1_Alternate ==
    [][ev'.type = "notify" =>
          IF ev'.op = "key_down" THEN last[ev'.val] = "up"
                                 ELSE last[ev'.val] = "down"]_vars

\* C2: at most one transfer is in flight at any moment, and one is in
\* flight exactly while the lock is held.
C2_OneTransfer == InFlight <= 1 /\ (lock <=> InFlight = 1)

\* C2 witness: a command waits for the lock while a read of the polling
\* loop is in flight.
C2_Contended ==
    /\ \E c \in Callers : cpc[c] = "lock"
    /\ \E t \in Threads : tpc[t] = "d_xfer"

\* C3: once a stop() call has returned, no polling thread starts a read and
\* no notification is fired.
C3_QuietAfterStop ==
    [][stopReturned =>
          /\ ev'.type # "notify"
          /\ \A t \in Threads :
                ~(tpc[t] \in {"g_lock", "d_lock"}
                  /\ tpc'[t] \in {"g_xfer", "d_xfer"})]_vars

\* C4: a read of the polling loop that fails fires nothing, changes no key
\* state, reaches no caller, and the thread goes on with the next step of
\* its cycle; a polling thread leaves the loop only when stop is signalled.
C4_ReadErrorSwallowed ==
    [][/\ (ev'.type = "read" =>
             /\ UNCHANGED <<display_keys, game_keys, last, callerSide>>
             /\ \A t \in Threads :
                   tpc'[t] = IF tpc[t] = "g_xfer" /\ ev'.op = "macro"
                                THEN "d_lock"
                             ELSE IF tpc[t] = "d_xfer" /\ ev'.op = "pad"
                                THEN "wait"
                             ELSE tpc[t])
       /\ \A t \in Threads :
             (tpc[t] # "exit" /\ tpc'[t] = "exit") => stopped]_vars

\* C4 witness: a read failed while a key is stored as pressed.
C4_FailedWhilePressed ==
    /\ ev.type = "read"
    /\ \E k \in Range(GameKey) : game_keys[k]
    /\ \E k \in Range(ControlKey) : display_keys[k]

C6_StopIdempotent ==
    /\ [](stopReturned =>
            /\ stopped
            /\ thread # 0
            /\ tpc[thread] \in {"wait", "exit", "done", "dead"}
            /\ \A c \in Callers :
                  (cafter[c] /\ cpc[c] = "stop_join") =>
                      tpc[cjoin[c]] \in {"wait", "exit", "done", "dead"})
    /\ [][\A c \in Callers :
             (/\ stopReturned
              /\ cpc'[c] # cpc[c]
              /\ \/ cpc'[c] = "stop_load"
                 \/ cpc[c] \in {"stop_load", "stop_join"}) =>
                 /\ UNCHANGED <<color, brightness, thread, running, stopped,
                                lock, tpc, pollerSide>>
                 /\ ev'.val # "AttributeError"]_vars

\* C6 witness: a stop() called after a stop() has returned is at its join.
C6_SecondStop ==
    \E c \in Callers : cafter[c] /\ cpc[c] = "stop_join"

\* C7: set_brightness(b) with b outside 0..100 raises before anything else:
\* the cache and the lock are as before and the caller is in no transfer;
\* with b in 0..100 it caches b and goes on to the transfer; the cached
\* brightness is in 0..100 in every state.
C7_BrightnessRange ==
    /\ [](/\ get_brightness \in BRIGHTNESS_MIN..BRIGHTNESS_MAX
          /\ \A c \in Callers :
                cdata[c].op = "set_brightness" =>
                    Head(cdata[c].data) \in BRIGHTNESS_MIN..BRIGHTNESS_MAX)
    /\ [][\A c \in Callers : \A b \in BrightnessArgs :
             set_brightness(c, b) =>
                 IF b \in {0, 100}
                 THEN /\ get_brightness' = b
                      /\ cpc'[c] = "lock"
                      /\ Head(cdata'[c].data) = b
                 ELSE /\ ev' = Observed("ret", "set_brightness", "AssertionError")
                      /\ cpc'[c] = "idle"
                      /\ UNCHANGED <<brightness, lock>>]_vars

\* C7 witness: a call out of range was refused after the brightness was set
\* to 0, which is still cached.
C7_RefusedKeepsCache ==
    /\ ev = Observed("ret", "set_brightness", "AssertionError")
    /\ get_brightness = 0

\* C8: the transfer of a command that fails ends the call with the error
\* raised to its caller, and every transfer of a command ends its call (none
\* is tried again); a failed read of the polling loop reaches no caller.
C8_CommandErrorSurfaced ==
    [][/\ \A c \in Callers : \A o \in Failures :
             command_done(c, o) =>
                 /\ ev' = Observed("ret", cdata[c].op, "USBError")
                 /\ cpc'[c] = "idle"
       /\ \A c \in Callers :
             (cpc[c] = "xfer" /\ cpc'[c] # "xfer") =>
                 /\ cpc'[c] = "idle"
                 /\ ev'.type = "ret"
                 /\ ev'.op = cdata[c].op
       /\ ev'.type = "read" => UNCHANGED <<cpc, cdata>>]_vars

\* C8 witness: a command has raised the error of its transfer.
C8_FailureSeen ==
    ev.type = "ret" /\ ev.op \in Commands /\ ev.val = "USBError"

\* C9: get_color() returns the argument of the most recent set_color call,
\* (0,0,0) before the first, whatever became of the transfer; only a
\* set_color call changes it.
C9_ColorCache ==
    /\ [](get_color = lastColorArg)
    /\ [][color' # color =>
             \E c \in Callers :
                 /\ cpc[c] = "idle"
                 /\ cdata'[c].op = "set_color"
                 /\ color' = Tail(cdata'[c].data)]_vars

\* C9 witness: the transfer of set_color(1,2,3) failed and (1,2,3) is cached.
C9_FailedButCached ==
    /\ ev = Observed("ret", "set_color", "USBError")
    /\ get_color = <<1, 2, 3>>
    /\ \A c \in Callers : cpc[c] = "idle"

\* the bit of a key in a bitmask, by division
Bit(keys, key) == (keys \div key) % 2 = 1

\* the positions from i on of the keys whose bit differs from the stored state
Differing(Keys, keys, state, i) ==
    {j \in i..Len(Keys) : state[Keys[j]] # Bit(keys, Keys[j])}

\* one step of the pass of the polling thread over a mapping, from the test
\* at `test`: with no key left whose bit differs from the stored state the
\* pass ends with nothing fired; else the first such key is notified, down
\* when its bit is set and up when it is clear
PassStep(Keys, group, state, test) ==
    tpc[Poller] = test =>
        LET D == Differing(Keys, tkeys[Poller], state, tidx[Poller])
        IN IF D = {}
           THEN ev'.type = "none" /\ tpc'[Poller] \notin {"g_set", "d_set"}
           ELSE LET j == CHOOSE d \in D : \A e \in D : d <= e
                IN /\ ev' = Observed("notify",
                                     IF Bit(tkeys[Poller], Keys[j])
                                     THEN "key_down" ELSE "key_up",
                                     <<group, Keys[j]>>)
                   /\ tidx'[Poller] = j

\* the store that follows a notification: the key notified takes its bit,
\* no other key changes, and the pass goes on behind it
StoreStep(Keys, state, stateNext, set) ==
    tpc[Poller] = set =>
        /\ ev.type = "notify"
        /\ ev.val[2] = Keys[tidx[Poller]]
        /\ \A k \in Range(Keys) :
              stateNext[k] = IF k = Keys[tidx[Poller]]
                             THEN Bit(tkeys[Poller], k) ELSE state[k]
        /\ tidx'[Poller] = tidx[Poller] + 1

\* C10: a pass over a mapping notifies precisely the keys whose bit differs
\* from the stored state, each once, down for a set bit and up for a clear
\* one, and leaves every stored state equal to its bit; nothing but the
\* store after a notification changes a stored state, and nothing outside
\* a pass fires a notification.
C10_EdgeTriggered ==
    /\ []((tpc[Poller] \in {"g_test", "g_set"} =>
              \A j \in 1..(tidx[Poller] - 1) :
                  game_keys[GameKey[j]] = Bit(tkeys[Poller], GameKey[j]))
          /\ (tpc[Poller] \in {"d_test", "d_set"} =>
              \A j \in 1..(tidx[Poller] - 1) :
                  display_keys[ControlKey[j]] = Bit(tkeys[Poller], ControlKey[j])))
    /\ [][/\ PassStep(GameKey, "game", game_keys, "g_test")
          /\ PassStep(ControlKey, "display", display_keys, "d_test")
          /\ StoreStep(GameKey, game_keys, game_keys', "g_set")
          /\ StoreStep(ControlKey, display_keys, display_keys', "d_set")
          /\ tpc[Poller] # "g_set" => UNCHANGED game_keys
          /\ tpc[Poller] # "d_set" => UNCHANGED display_keys
          /\ tpc[Poller] \notin {"g_test", "d_test"} => ev'.type # "notify"
          /\ (tpc[Poller] = "g_test" /\ tpc'[Poller] # "g_set") =>
                \A k \in Range(GameKey) : game_keys'[k] = Bit(tkeys[Poller], k)
          /\ (tpc[Poller] = "d_test" /\ tpc'[Poller] # "d_set") =>
                \A k \in Range(ControlKey) :
                    display_keys'[k] = Bit(tkeys[Poller], k)]_vars

\* C10 witness: the pad byte 0x00 after OK was down: key-up(OK) is fired,
\* with the G2 and LIGHT keys held down meanwhile.
C10_OkReleased ==
    /\ ev = Observed("notify", "key_up", <<"display", 8>>)
    /\ tkeys[Poller] = 0
    /\ game_keys[2] /\ game_keys[524288]

\* the place of a key in the declaration order of its enumeration
Pos(Keys, key) == CHOOSE i \in 1..Len(Keys) : Keys[i] = key

\* C11: the notifications of one pass come in the declaration order of the
\* enumeration: a key is notified only when every key declared before it
\* has its bit stored already, at or behind the place the pass has reached,
\* and the pass goes on behind the key it has notified.
C11_DeclarationOrder ==
    [][/\ ev'.type = "notify" =>
             LET group == ev'.val[1]
                 Keys == IF group = "game" THEN GameKey ELSE ControlKey
                 state == IF group = "game" THEN game_keys ELSE display_keys
                 j == Pos(Keys, ev'.val[2])
             IN /\ j >= tidx[Poller]
                /\ tidx'[Poller] = j
                /\ \A i \in 1..(j - 1) :
                      state[Keys[i]] = Bit(tkeys[Poller], Keys[i])
       /\ tpc[Poller] \in {"g_set", "d_set"} =>
             tidx'[Poller] = tidx[Poller] + 1
       /\ (tpc[Poller] \in {"g_test", "d_test"}
             /\ tpc'[Poller] \in {"g_set", "d_set"}) =>
             ev'.type = "notify"]_vars

\* C11 witness: the pad byte goes from OK with UP (0x88) to SETTINGS with UP
\* (0x81): key-down(SETTINGS) has been fired and stored, key-up(OK) is fired
\* behind it.
C11_DownThenUp ==
    /\ ev = Observed("notify", "key_up", <<"display", 8>>)
    /\ tkeys[Poller] = 129
    /\ display_keys[1] /\ display_keys[8] /\ display_keys[128]

\* the polling threads that are executing the polling loop
Polling == {t \in Threads : tpc[t] \notin {"unborn", "exit", "done", "dead"}}

\* C12: at most one polling thread is executing the polling loop at any
\* time, whatever the interleaving of the start() calls.
C12_OnePoller == Cardinality(Polling) <= 1

\* C13: show with a buffer of another length than 230,400 bytes raises at
\* once, with nothing written and the lock untouched; with 230,400 bytes
\* the whole encoded frame goes into one transfer: the call takes the lock
\* once, writes the frame under it and returns when the write ends.
C13_FrameLength ==
    /\ [](\A c \in Callers :
             (cdata[c].op = "show" /\ cpc[c] # "idle") =>
                 /\ cdata[c].data = Frame
                 /\ cpc[c] \in {"lock", "xfer"}
                 /\ cpc[c] = "xfer" => lock)
    /\ [][/\ \A c \in Callers : \A n \in FrameLens :
                show(c, n) =>
                    IF n = FRAME_BYTES
                    THEN cpc'[c] = "lock" /\ cdata'[c].op = "show"
                    ELSE /\ ev' = Observed("ret", "show", "AssertionError")
                         /\ cpc'[c] = "idle"
                         /\ UNCHANGED lock
          /\ \A c \in Callers :
                cdata[c].op = "show" =>
                    \/ UNCHANGED <<cpc[c], cdata[c]>>
                    \/ cpc[c] = "lock" /\ cpc'[c] = "xfer" /\ ~lock /\ lock'
                          /\ UNCHANGED cdata[c]
                    \/ cpc[c] = "xfer" /\ cpc'[c] = "idle" /\ ~lock'
                          /\ ev'.type = "ret" /\ ev'.op = "show"]_vars

\* C13 witness: the frame of one caller is being written while the show of
\* another, with a buffer of a wrong length, has just been refused.
C13_WrittenAndRefused ==
    /\ ev = Observed("ret", "show", "AssertionError")
    /\ \E c \in Callers : cdata[c].op = "show" /\ cpc[c] = "xfer"

\* C14 as stated: the frame show() writes is 272+153600 bytes long and
\* begins with the 16 bytes of the header.
C14_Frame272 ==
    \A c \in Callers :
        (cdata[c].op = "show" /\ cpc[c] = "xfer") =>
            /\ cdata[c].data.len = 272 + 153600
            /\ cdata[c].data.head = FRAME_HEADER

\* C14 amended: the frame show() writes is 512+153600 bytes long, a
\* preamble of 16+240+256 bytes before the two bytes of each of the 320x240
\* pixels, and begins with the 16 bytes of the header.
C14_Frame512 ==
    \A c \in Callers :
        (cdata[c].op = "show" /\ cpc[c] = "xfer") =>
            /\ cdata[c].data.len = 512 + 153600
            /\ cdata[c].data.head =
                   <<16, 15, 0, 88, 2, 0, 0, 0, 0, 0, 0, 63, 1, 239, 0, 15>>

\* C14 witness: a frame of 154,112 bytes is being written.
C14_FrameInFlight ==
    \E c \in Callers :
        /\ cdata[c].op = "show"
        /\ cpc[c] = "xfer"
        /\ cdata[c].data.len = 154112

\* C15: in every cycle the macro-key read comes before the control-pad
\* read, and the control-pad read is attempted in the same cycle whatever
\* the macro-key read returned: a cycle begins at the macro-key read, the
\* end of the macro-key read leads to the pass over its keys or to the
\* control-pad read, and the pass leads to the control-pad read.
C15_MacroThenPad ==
    [][\A t \in Threads :
          /\ (tpc[t] = "wait" /\ tpc'[t] # "wait") =>
                tpc'[t] \in {"g_lock", "exit"}
          /\ (tpc[t] = "g_lock" /\ tpc'[t] # "g_lock") => tpc'[t] = "g_xfer"
          /\ (tpc[t] = "g_xfer" /\ tpc'[t] # "g_xfer") =>
                tpc'[t] \in {"g_test", "d_lock"}
          /\ (tpc[t] = "g_test" /\ tpc'[t] # "g_test") =>
                tpc'[t] \in {"g_set", "d_lock"}
          /\ (tpc[t] = "g_set" /\ tpc'[t] # "g_set") => tpc'[t] = "g_test"
          /\ (tpc[t] = "d_lock" /\ tpc'[t] # "d_lock") => tpc'[t] = "d_xfer"
          /\ (tpc[t] # "d_lock" /\ tpc'[t] = "d_lock") =>
                tpc[t] \in {"g_xfer", "g_test"}]_vars

\* C17: a macro-key read is decoded only when it returned 4 bytes of which
\* the first is 2, into the bitmask b3<<16 | b2<<8 | b1; after any other
\* data no notification is fired, the macro-key state is unchanged and the
\* thread goes on to the control-pad read.
C17_DecodeOnlySentinel ==
    [][\A t \in Threads : \A r \in GameData :
          run_macro_read(t, r) =>
              IF Len(r) = 4 /\ r[1] = 2
              THEN /\ tpc'[t] = "g_test"
                   /\ tkeys'[t] = r[4] * 65536 + r[3] * 256 + r[2]
              ELSE /\ tpc'[t] = "d_lock"
                   /\ ev'.type # "notify"
                   /\ UNCHANGED <<game_keys, display_keys, last>>]_vars

\* the polling threads that have a read in flight
Reading == {t \in Threads : tpc[t] \in {"g_xfer", "d_xfer"}}

\* C16: the two reads of a cycle are two locked sections: the lock is held
\* only by a thread that has a transfer in flight, the end of the macro-key
\* read releases it, and no command starts its transfer while a read is in
\* flight.
C16_TwoSections ==
    /\ [](/\ lock => (Reading # {} \/ \E c \in Callers : cpc[c] = "xfer")
          /\ Reading # {} => \A c \in Callers : cpc[c] # "xfer")
    /\ [][/\ \A t \in Threads :
                (tpc[t] = "g_xfer" /\ tpc'[t] # "g_xfer") =>
                    ~lock' /\ tpc'[t] # "d_xfer"
          /\ \A c \in Callers :
                (cpc[c] # "xfer" /\ cpc'[c] = "xfer") =>
                    Reading = {} /\ ~lock]_vars

\* C16 witness: the transfer of a command is in flight while a polling
\* thread, its macro-key read of this cycle done and a key of it stored, is
\* about to take the lock for its control-pad read.
C16_CommandBetweenReads ==
    /\ \E c \in Callers : cpc[c] = "xfer" /\ cdata[c].op \in Commands
    /\ \E t \in Threads : tpc[t] = "d_lock"
    /\ game_keys[1]
    /\ lock

\* C20: the lock is released at the end of every transfer, of a command
\* and of a read of the polling loop, failed or not: the step that ends a
\* transfer leaves the lock free, and the lock is never held while no
\* thread has a transfer in flight, so a thread that has returned, raised
\* or died holds nothing.
C20_LockReleased ==
    /\ []((Reading = {} /\ \A c \in Callers : cpc[c] # "xfer") => ~lock)
    /\ [][/\ \A c \in Callers :
                (cpc[c] = "xfer" /\ cpc'[c] # "xfer") => ~lock'
          /\ \A t \in Reading : tpc'[t] # tpc[t] => ~lock'
          /\ ev'.val = "USBError" => lock /\ ~lock']_vars

\* C20 witness: the transfer of a command has failed, the lock is free and
\* a polling thread is about to take it for its macro-key read.
C20_FreeAfterFailure ==
    /\ ev.type = "ret" /\ ev.op \in Commands /\ ev.val = "USBError"
    /\ ~lock
    /\ \E t \in Threads : tpc[t] = "g_lock"

\* C18: a stop() called after a start() returns, and every polling thread
\* leaves its loop once the stop signal is set, also while light() calls
\* go on taking the lock; a thread that finds the signal set at its wait
\* leaves at once, so no cycle begins after the cycle in which the signal
\* was set.
C18_StopTerminates ==
    /\ \A c \in Callers :
          (cdata[c].op = "stop" /\ thread # 0) ~> (cpc[c] = "idle")
    /\ \A t \in Threads :
          (stopped /\ t \in Polling) ~> (tpc[t] \in {"done", "dead"})
    /\ [][\A t \in Threads :
             (stopped /\ tpc[t] = "wait" /\ tpc'[t] # "wait") =>
                 tpc'[t] = "exit"]_vars

\* C18 witness: stop() has returned, its polling thread has finished, and
\* the other caller is in a light() call.
C18_StoppedUnderLoad ==
    /\ ev = Observed("ret", "stop", "ok")
    /\ thread # 0 /\ tpc[thread] = "done"
    /\ \E c \in Callers : cdata[c].op = "light" /\ cpc[c] \in {"lock", "xfer"}

\* the polling thread is inside a `with self._lock` block
PollerLocked == tpc[Poller] \in {"g_xfer", "d_xfer", "g_cxfer", "d_cxfer"}

\* the polling thread is in a handler that is about to take the lock
HandlerWaits == tpc[Poller] \in {"g_call", "d_call"}

\* C19: a notification is fired by the polling thread outside its locked
\* sections: the lock is held only by a thread inside a transfer, and the
\* step that fires a notification comes from the pass over the keys and
\* takes no lock.  So a handler that calls a command finds the lock free or
\* held by the transfer of a caller, and gets to its own transfer.
C19_FiredUnlocked ==
    /\ [](/\ lock => (PollerLocked \/ \E c \in Callers : cpc[c] = "xfer")
          /\ (HandlerWaits /\ lock) => \E c \in Callers : cpc[c] = "xfer")
    /\ [][ev'.type = "notify" =>
             /\ tpc[Poller] \in {"g_test", "d_test"}
             /\ HandlerWaits'
             /\ UNCHANGED lock
             /\ lock => \E c \in Callers : cpc[c] = "xfer"]_vars
    /\ HandlerWaits ~> PollerLocked

\* C19 witness: the transfer of the light() called by the handler of
\* key-down(OK) is in flight, and a caller waits for the lock.
C19_HandlerTransfers ==
    /\ tpc[Poller] = "d_cxfer"
    /\ lock
    /\ last[<<"display", 8>>] = "down"
    /\ \E c \in Callers : cpc[c] = "lock"

====
